---- MODULE Spec2Model ----
(***************************************************************************)
(* Office Villain: the session state machine of src/App.tsx (component     *)
(* App) together with the gateway functions of the geminiService module.   *)
(* React state (useState) is the model's state; every handler is cut at    *)
(* its awaits, so that one action is the code between two awaits.          *)
(***************************************************************************)
EXTENDS Integers, Sequences, FiniteSets, TLC

VARIABLES
    gameState,                \* App.tsx:24
    characters,               \* App.tsx:25
    playerCharacter,          \* App.tsx:26
    messages,                 \* App.tsx:27
    sabotage,                 \* App.tsx:28
    villain,                  \* App.tsx:29
    isLoading,                \* App.tsx:31
    error,                    \* App.tsx:32
    revealedCharactersCount,  \* App.tsx:34
    sceneImageUrl,            \* App.tsx:36
    vote,                     \* activation record of handlePlayerVote
    tasks,                    \* image promises in flight (.then callbacks not yet run)
    nextImg,                  \* next fresh image handle the gateway hands out
    startGame,                \* position of handleStartGame ("idle" or "await"), or
                              \* "effect": the briefing effect of its commit is due
    send,                     \* activation record of handleSendMessage
    timers,                   \* briefing timers not yet fired (App.tsx:69-74)
    lastCall,                 \* the handler call this step made, if it was one
    used,                     \* how many games, sends and vote rounds were started
    portraitCall              \* a call of generateCharacterPortraits and its result

vars == <<gameState, characters, playerCharacter, messages, sabotage, villain,
          isLoading, error, revealedCharactersCount, sceneImageUrl, vote,
          tasks, nextImg, startGame, send, timers, lastCall, used,
          portraitCall>>

\* What a vote round never touches.
outsideRound == <<startGame, send, timers, used>>

----------------------------------------------------------------------------
(* Bounds of the model and value domains.                                  *)

\* Longest vote list the gateway returns in a vote round.
MaxAiVotes == 2

\* Roster sizes the setup prompt asks for ("4-5 office worker characters").
MinChars == 4
MaxChars == 5

\* Character names in roster order, and a name that no character carries.
NameOf == <<"c1", "c2", "c3", "c4", "c5">>
Unknown == "zz"

\* null / undefined image reference; real image handles are positive.
NoImg == 0

\* null for playerCharacter and villain (useState<Character | null>(null)).
NoChar == [name |-> "", isVillain |-> FALSE]

Max(a, b) == IF a >= b THEN a ELSE b

----------------------------------------------------------------------------
(* Entity model: src/types.ts                                              *)

\* NewCharacter with isPlayer: index <= playerIndex.
NewCharacterUpTo(i, setup, playerIndex) ==
    [name      |-> NameOf[i],
     isVillain |-> (i \in setup.villains),
     isPlayer  |-> (i <= playerIndex),
     status    |-> "active",
     votes     |-> 0,
     imageUrl  |-> NoImg,
     visual    |-> (i \in setup.visual)]

\* One Character as handleStartGame builds it from a setup entry.
NewCharacter(i, setup, playerIndex) ==
    [name      |-> NameOf[i],
     isVillain |-> (i \in setup.villains),
     isPlayer  |-> (i = playerIndex),
     status    |-> "active",
     votes     |-> 0,
     imageUrl  |-> NoImg,
     visual    |-> (i \in setup.visual)]

NewCharacters(setup, playerIndex) ==
    [i \in 1..setup.n |-> NewCharacter(i, setup, playerIndex)]

\* A transcript message; a and b are the names interpolated into its text.
Msg(sender, kind, a, b, special, private) ==
    [sender |-> sender, kind |-> kind, a |-> a, b |-> b, text |-> <<>>,
     isSpecial |-> special, isPrivate |-> private, imageUrl |-> NoImg]

SysMsg(kind, a, b) == Msg("system", kind, a, b, FALSE, FALSE)
SpecialMsg(kind, a, b) == Msg("system", kind, a, b, TRUE, FALSE)

InitialMessages(playerName) ==
    << Msg("system", "you_are", playerName, "", FALSE, TRUE),
       SpecialMsg("sabotage", "", ""),
       SysMsg("find_villain", "", "") >>

CharNames(chars) == {chars[i].name : i \in 1..Len(chars)}
ActiveIdx(chars) == {i \in 1..Len(chars) : chars[i].status = "active"}

\* characters.find(c => c.name === name): index of the first match, 0 for undefined
FindIdx(chars, name) ==
    LET hits == {i \in 1..Len(chars) : chars[i].name = name}
    IN  IF hits = {} THEN 0 ELSE CHOOSE i \in hits : \A j \in hits : i <= j

\* characters.find(c => c.isVillain)
FindVillainIdx(chars) ==
    LET hits == {i \in 1..Len(chars) : chars[i].isVillain}
    IN  IF hits = {} THEN 0 ELSE CHOOSE i \in hits : \A j \in hits : i <= j

----------------------------------------------------------------------------
(* Vote Resolution Engine: handlePlayerVote, src/App.tsx:191-370           *)

\* ActiveAiVoters without the !c.isPlayer test.
ActiveVoters(chars) == {chars[i].name : i \in ActiveIdx(chars)}

\* new Set(characters.filter(c => c.status === 'active' && !c.isPlayer).map(c => c.name))
ActiveAiVoters(chars) ==
    {chars[i].name : i \in {j \in ActiveIdx(chars) : ~chars[j].isPlayer}}

\* aiVotes.filter(...) with the seenVoters set threaded through the iteration
RECURSIVE FilterVotes(_, _, _)
FilterVotes(aiVotes, activeAiVoters, seenVoters) ==
    IF aiVotes = <<>> THEN <<>>
    ELSE LET v == Head(aiVotes)
         IN  IF v.voter \in activeAiVoters /\ v.voter \notin seenVoters
             THEN <<v>> \o FilterVotes(Tail(aiVotes), activeAiVoters,
                                       seenVoters \cup {v.voter})
             ELSE FilterVotes(Tail(aiVotes), activeAiVoters, seenVoters)

\* ValidateAiVotes without the seenVoters test.
ValidateAnyActive(aiVotes, chars) ==
    SelectSeq(aiVotes, LAMBDA v : v.voter \in ActiveAiVoters(chars))

ValidateAiVotes(aiVotes, chars) ==
    FilterVotes(aiVotes, ActiveAiVoters(chars), {})

\* AllVotes with the player's ballot put last.
AllVotesPlayerLast(playerVote, aiVotes, chars) ==
    ValidateAiVotes(aiVotes, chars) \o <<playerVote>>

\* const allVotes = [playerVote, ...validatedAiVotes]
AllVotes(playerVote, aiVotes, chars) ==
    <<playerVote>> \o ValidateAiVotes(aiVotes, chars)

\* characters.forEach(c => { currentTally[c.name] = 0; })
InitTally(chars) == [n \in CharNames(chars) |-> 0]

\* currentTally[vote.votedFor] = (currentTally[vote.votedFor] || 0) + 1
TallyAdd(tally, votedFor) ==
    [n \in DOMAIN tally \cup {votedFor} |->
        IF n = votedFor
        THEN (IF n \in DOMAIN tally THEN tally[n] ELSE 0) + 1
        ELSE tally[n]]

\* currentTally[c.name] || 0
TallyOf(tally, name) == IF name \in DOMAIN tally THEN tally[name] ELSE 0

\* prev.map(c => ({...c, votes: currentTally[c.name] || 0}))
WithVotes(chars, tally) ==
    [i \in 1..Len(chars) |-> [chars[i] EXCEPT !.votes = TallyOf(tally, chars[i].name)]]

\* ResetVotes that also puts every character back to active.
ResetCharacters(chars) ==
    [i \in 1..Len(chars) |-> [chars[i] EXCEPT !.votes = 0, !.status = "active"]]

\* ResetVotes that leaves the counters as they are.
KeepVotes(chars) == chars

\* prev.map(c => ({...c, votes: 0}))
ResetVotes(chars) ==
    [i \in 1..Len(chars) |-> [chars[i] EXCEPT !.votes = 0]]

\* MarkVotedOut that marks nobody.
MarkNobody(chars, votedOutName) == chars

\* prev.map(c => c.name === votedOutName ? {...c, status: 'voted_out'} : c)
MarkVotedOut(chars, votedOutName) ==
    [i \in 1..Len(chars) |->
        IF chars[i].name = votedOutName
        THEN [chars[i] EXCEPT !.status = "voted_out"]
        ELSE chars[i]]

\* Math.max(0, ...voteCounts)
MaxVotes(tally) ==
    IF DOMAIN tally = {} THEN 0
    ELSE LET top == CHOOSE n \in DOMAIN tally : \A m \in DOMAIN tally : tally[m] <= tally[n]
         IN  Max(0, tally[top])

\* Object.keys(currentTally).filter(name => currentTally[name] === maxVotes && maxVotes > 0)
Candidates(tally) ==
    {n \in DOMAIN tally : tally[n] = MaxVotes(tally) /\ MaxVotes(tally) > 0}

\* VillainWinsPhase with the two outcomes exchanged.
VillainWinsPhaseSwapped(isPlayerTheVillain) ==
    IF isPlayerTheVillain THEN "game_over_loss" ELSE "game_over_win"

\* setGameState(isPlayerTheVillain ? 'game_over_win' : 'game_over_loss')
VillainWinsPhase(isPlayerTheVillain) ==
    IF isPlayerTheVillain THEN "game_over_win" ELSE "game_over_loss"

\* VillainCaughtPhase that lets the player win whoever the villain is.
VillainCaughtAlwaysWin(isPlayerTheVillain) == "game_over_win"

\* setGameState(isPlayerTheVillain ? 'game_over_loss' : 'game_over_win')
VillainCaughtPhase(isPlayerTheVillain) ==
    IF isPlayerTheVillain THEN "game_over_loss" ELSE "game_over_win"

\* PlayerOutPhase that lets the game go on.
PlayerOutContinues == "discussion"

\* innocent player voted out: setGameState('game_over_loss')
PlayerOutPhase == "game_over_loss"

\* catch: setGameState('voting')
ErrorPhaseVoting == "voting"

\* catch: setGameState('discussion')
ErrorPhase == "discussion"

\* RemainingCount that still counts the character just voted out.
ActiveCount(chars) == Cardinality(ActiveIdx(chars))

\* characters.filter(c => c.status === 'active').length - 1
RemainingCount(chars) == Cardinality(ActiveIdx(chars)) - 1

\* if (remainingCount <= 2)
AttritionLimit == 2

\* GameContinues that goes on down to two active characters.
GameContinuesToTwo(chars) == RemainingCount(chars) >= AttritionLimit

GameContinues(chars) == RemainingCount(chars) > AttritionLimit

\* WithError that appends nothing.
WithoutError(msgs) == msgs

\* catch (e) { setMessages(prev => [...prev, {sender: 'system', text: `Error: ...`}]) }
WithError(msgs) == Append(msgs, SysMsg("error", "", ""))

\* A handler call as a step records it: the handler and its argument (the
\* voted name of handlePlayerVote, the input text of handleSendMessage).
Call(op, name, text) == [op |-> op, name |-> name, text |-> text]
NoCall == Call("none", "", <<>>)

\* The activation record of handleSendMessage when no call is in progress.
IdleSend ==
    [pc |-> "idle", names |-> <<>>, reply |-> <<>>, k |-> 0, before |-> <<>>]

\* Nothing started yet.
NoneUsed == [games |-> 0, sends |-> 0, rounds |-> 0]

\* No call of generateCharacterPortraits is being looked at.
NoPortraitCall == [pc |-> "idle", outcomes |-> <<>>, result |-> <<>>]

\* A pending image promise: what it was requested for, the image it would
\* resolve with, and the game whose handler requested it.
SceneTask(img) == [kind |-> "scene", idx |-> 0, img |-> img, game |-> used.games]
PortraitTask(i, img) ==
    [kind |-> "portrait", idx |-> i, img |-> img, game |-> used.games]
EditTask(i, img) == [kind |-> "edit", idx |-> i, img |-> img, game |-> used.games]

\* The activation record of handlePlayerVote when no call is in progress.
IdleVote ==
    [pc |-> "idle", votedName |-> "", chars |-> <<>>, player |-> NoChar,
     villain |-> NoChar, scene |-> NoImg, before |-> <<>>, aiVotes |-> <<>>,
     allVotes |-> <<>>, k |-> 0, tally |-> InitTally(<<>>), votedOutName |-> ""]

\* The catch and finally blocks: error message, back to discussion, busy cleared.
CatchVoteError(msgs) ==
    /\ messages' = WithError(msgs)
    /\ gameState' = ErrorPhase
    /\ isLoading' = FALSE
    /\ vote' = [vote EXCEPT !.pc = "done"]

\* VoteAccepted without the phase test.
VoteAcceptedAnyPhase == playerCharacter # NoChar /\ ~isLoading

\* The handler goes on past line 192:
\* if (gameState !== 'voting' || !playerCharacter || isLoading) return;
VoteAccepted == gameState = "voting" /\ playerCharacter # NoChar /\ ~isLoading

\* handlePlayerVote up to its first await (lines 191-200). The closure's
\* characters, playerCharacter, villain and sceneImageUrl are those of the
\* render that bound the handler.
HandlePlayerVote(votedName) ==
    /\ VoteAccepted
    /\ gameState' = "reveal"
    /\ isLoading' = TRUE
    /\ messages' = Append(messages, SysMsg("tallying", "", ""))
    /\ vote' = [IdleVote EXCEPT !.pc = "await_votes", !.votedName = votedName,
                                !.chars = characters, !.player = playerCharacter,
                                !.villain = villain, !.scene = sceneImageUrl,
                                !.before = messages]
    /\ lastCall' = Call("vote", votedName, <<>>)
    /\ UNCHANGED portraitCall
    /\ used' = [used EXCEPT !.rounds = @ + 1]
    /\ UNCHANGED <<characters, playerCharacter, sabotage, villain, error,
                   revealedCharactersCount, sceneImageUrl, tasks, nextImg>>
    /\ UNCHANGED <<startGame, send, timers>>

\* getVoteAndConfession rejects: no villain in the roster (part_002:188-190),
\* or the request, the JSON parse or the completeness test fails (part_002:225-228).
GetVoteAndConfessionThrows ==
    /\ vote.pc = "await_votes"
    /\ CatchVoteError(messages)
    /\ lastCall' = NoCall
    /\ UNCHANGED portraitCall
    /\ UNCHANGED <<characters, playerCharacter, sabotage, villain, error,
                   revealedCharactersCount, sceneImageUrl, tasks, nextImg>>
    /\ UNCHANGED outsideRound

\* A character panel that is taken off the page during the reveal phase.
CharacterPanelUnmountedInReveal ==
    gameState \in {"discussion", "voting", "game_over_win", "game_over_loss"}

\* characterPanelRef.current is the panel's element: the panel is rendered by
\* the one case of renderGameState that these five phases share (lines
\* 436-446), and the ref is null while it is not rendered.
CharacterPanelMounted ==
    gameState \in {"discussion", "voting", "reveal", "game_over_win", "game_over_loss"}

\* GetVoteAndConfessionReturns without the villain test of part_002:188-190.
GetVoteAndConfessionReturnsUnchecked(aiVotes) ==
    /\ vote.pc = "await_votes"
    /\ IF CharacterPanelMounted
       THEN /\ vote' = [vote EXCEPT
                  !.pc = "reveal",
                  !.aiVotes = aiVotes,
                  !.allVotes = AllVotes([voter |-> vote.player.name,
                                         votedFor |-> vote.votedName],
                                        aiVotes, vote.chars),
                  !.tally = InitTally(vote.chars),
                  !.k = 0]
            /\ UNCHANGED isLoading
       ELSE \* if (!characterPanel) return; and the finally block
            /\ vote' = [vote EXCEPT !.pc = "done"]
            /\ isLoading' = FALSE
    /\ lastCall' = NoCall
    /\ UNCHANGED portraitCall
    /\ UNCHANGED <<gameState, characters, playerCharacter, messages, sabotage,
                   villain, error, revealedCharactersCount,
                   sceneImageUrl, tasks, nextImg>>
    /\ UNCHANGED outsideRound

\* getVoteAndConfession resolves with data.votes = aiVotes (lines 200-221).
GetVoteAndConfessionReturns(aiVotes) ==
    /\ vote.pc = "await_votes"
    /\ FindVillainIdx(vote.chars) # 0
    /\ IF CharacterPanelMounted
       THEN /\ vote' = [vote EXCEPT
                  !.pc = "reveal",
                  !.aiVotes = aiVotes,
                  !.allVotes = AllVotes([voter |-> vote.player.name,
                                         votedFor |-> vote.votedName],
                                        aiVotes, vote.chars),
                  !.tally = InitTally(vote.chars),
                  !.k = 0]
            /\ UNCHANGED isLoading
       ELSE \* if (!characterPanel) return; and the finally block
            /\ vote' = [vote EXCEPT !.pc = "done"]
            /\ isLoading' = FALSE
    /\ lastCall' = NoCall
    /\ UNCHANGED portraitCall
    /\ UNCHANGED <<gameState, characters, playerCharacter, messages, sabotage,
                   villain, error, revealedCharactersCount,
                   sceneImageUrl, tasks, nextImg>>
    /\ UNCHANGED outsideRound

\* One iteration of the reveal loop (lines 223-250). aiVotes is not read
\* again once the loop runs, and the record drops it.
RevealVote ==
    /\ vote.pc = "reveal"
    /\ vote.k < Len(vote.allVotes)
    /\ LET v == vote.allVotes[vote.k + 1]
           currentTally == TallyAdd(vote.tally, v.votedFor)
       IN  /\ vote' = [vote EXCEPT !.tally = currentTally, !.k = @ + 1,
                                   !.aiVotes = <<>>]
           /\ characters' = WithVotes(characters, currentTally)
           /\ messages' = Append(messages, SysMsg("ballot", v.voter, v.votedFor))
    /\ lastCall' = NoCall
    /\ UNCHANGED portraitCall
    /\ UNCHANGED <<gameState, playerCharacter, sabotage, villain, isLoading,
                   error, revealedCharactersCount, sceneImageUrl, tasks, nextImg>>
    /\ UNCHANGED outsideRound

\* The two closing messages that name the true villain (lines 269-273, 317-321,
\* 331-335, 355-359). The closure's villain is not null here: it is the same
\* characters.find(c => c.isVillain) that getVoteAndConfession has just passed.
RevealVillain(msgs, kind, a, phase) ==
    /\ messages' = msgs \o << SpecialMsg(kind, a, vote.villain.name),
                              Msg(vote.villain.name, "confession", "", "", FALSE, FALSE) >>
    /\ gameState' = phase
    /\ isLoading' = FALSE
    /\ vote' = [vote EXCEPT !.pc = "done"]

\* Lines 252-296: the tally is read and the branch is entered, up to the
\* branch's two-second await.
DetermineResult ==
    /\ vote.pc = "reveal"
    /\ vote.k = Len(vote.allVotes)
    /\ LET candidatesForElimination == Candidates(vote.tally)
       IN  IF Cardinality(candidatesForElimination) > 1
           THEN /\ messages' = Append(messages, SpecialMsg("tie", "", ""))
                /\ vote' = [vote EXCEPT !.pc = "tie_wait"]
                /\ UNCHANGED <<gameState, characters, isLoading, tasks, nextImg>>
           ELSE IF Cardinality(candidatesForElimination) = 1
           THEN LET votedOutName == CHOOSE n \in candidatesForElimination : TRUE
                    idx == FindIdx(vote.chars, votedOutName)
                    fired == Append(messages, SysMsg("fired", votedOutName, ""))
                IN  /\ characters' = MarkVotedOut(characters, votedOutName)
                    /\ IF vote.scene # NoImg /\ idx = 0
                       THEN \* votedOutCharacter is undefined: reading
                            \* .visualDescription throws, the catch block runs
                            /\ CatchVoteError(fired)
                            /\ UNCHANGED <<tasks, nextImg>>
                       ELSE /\ messages' = fired
                            /\ vote' = [vote EXCEPT !.pc = "single_wait",
                                                    !.votedOutName = votedOutName]
                            /\ IF vote.scene # NoImg /\ vote.chars[idx].visual
                               THEN /\ tasks' = tasks \cup {EditTask(idx, nextImg)}
                                    /\ nextImg' = nextImg + 1
                               ELSE UNCHANGED <<tasks, nextImg>>
                            /\ UNCHANGED <<gameState, isLoading>>
           ELSE /\ messages' = Append(messages, SpecialMsg("nobody", "", ""))
                /\ vote' = [vote EXCEPT !.pc = "none_wait"]
                /\ UNCHANGED <<gameState, characters, isLoading, tasks, nextImg>>
    /\ lastCall' = NoCall
    /\ UNCHANGED portraitCall
    /\ UNCHANGED <<playerCharacter, sabotage, villain, error,
                   revealedCharactersCount, sceneImageUrl>>
    /\ UNCHANGED outsideRound

\* Lines 267-274, 296-346 and 354-360: the rest of the branch after its
\* await, and the finally block.
AnnounceResult ==
    /\ vote.pc \in {"tie_wait", "single_wait", "none_wait"}
    /\ LET isPlayerTheVillain == vote.player.isVillain
       IN  IF vote.pc # "single_wait"
           THEN /\ RevealVillain(messages, "villain_was", "", VillainWinsPhase(isPlayerTheVillain))
                /\ UNCHANGED characters
           ELSE LET idx == FindIdx(vote.chars, vote.votedOutName)
                IN  IF idx = 0
                    THEN \* votedOutCharacter.isVillain on undefined throws
                         /\ CatchVoteError(messages)
                         /\ UNCHANGED characters
                    ELSE LET votedOutCharacter == vote.chars[idx]
                         IN  IF votedOutCharacter.isVillain
                             THEN /\ messages' = messages \o
                                       << SpecialMsg(IF votedOutCharacter.isPlayer
                                                     THEN "caught_you" ELSE "caught",
                                                     vote.votedOutName, ""),
                                          Msg(vote.votedOutName, "confession", "", "", FALSE, FALSE) >>
                                  /\ gameState' = VillainCaughtPhase(isPlayerTheVillain)
                                  /\ isLoading' = FALSE
                                  /\ vote' = [vote EXCEPT !.pc = "done"]
                                  /\ UNCHANGED characters
                             ELSE IF votedOutCharacter.isPlayer
                             THEN /\ RevealVillain(messages, "innocent_player", "", PlayerOutPhase)
                                  /\ UNCHANGED characters
                             ELSE IF ~GameContinues(vote.chars)
                             THEN /\ RevealVillain(messages, "attrition", vote.votedOutName,
                                                   VillainWinsPhase(isPlayerTheVillain))
                                  /\ UNCHANGED characters
                             ELSE /\ messages' = Append(messages,
                                       SpecialMsg("continue", vote.votedOutName, ""))
                                  /\ characters' = ResetVotes(characters)
                                  /\ gameState' = "discussion"
                                  /\ isLoading' = FALSE
                                  /\ vote' = [vote EXCEPT !.pc = "done"]
    /\ lastCall' = NoCall
    /\ UNCHANGED portraitCall
    /\ UNCHANGED <<playerCharacter, sabotage, villain, error,
                   revealedCharactersCount, sceneImageUrl, tasks, nextImg>>
    /\ UNCHANGED outsideRound

----------------------------------------------------------------------------
(* Discussion: handleSendMessage, src/App.tsx:164-189, and the reply       *)
(* stream getCharacterResponses, src/unnamed/part_002:136-173.             *)

\* String.prototype.trim, on a text given as the sequence of its characters.
RECURSIVE TrimStart(_)
TrimStart(t) == IF t # <<>> /\ Head(t) = " " THEN TrimStart(Tail(t)) ELSE t

RECURSIVE TrimEnd(_)
TrimEnd(t) ==
    IF t # <<>> /\ t[Len(t)] = " " THEN TrimEnd(SubSeq(t, 1, Len(t) - 1)) ELSE t

\* Trim that leaves the text as it is.
NoTrim(t) == t

Trim(t) == TrimEnd(TrimStart(t))

\* The handler goes on past line 166:
\* if (!userInput.trim() || isLoading || gameState !== 'discussion' || !playerCharacter) return;
SendAccepted(text) ==
    Trim(text) # <<>> /\ ~isLoading /\ gameState = "discussion" /\ playerCharacter # NoChar

\* { sender: playerCharacter.name, text: userInput }
ChatMsg(sender, text) ==
    [Msg(sender, "chat", "", "", FALSE, FALSE) EXCEPT !.text = text]

\* Repliers that include the voted_out characters.
AllAiNames(chars, playerName) ==
    LET RECURSIVE From(_)
        From(i) == IF i > Len(chars) THEN <<>>
                   ELSE (IF chars[i].name # playerName
                         THEN <<chars[i].name>> ELSE <<>>) \o From(i + 1)
    IN  From(1)

\* characters.filter(c => c.status === 'active' && c.name !== playerCharacterName),
\* as the sequence of their names in roster order
ActiveAiNames(chars, playerName) ==
    LET RECURSIVE From(_)
        From(i) == IF i > Len(chars) THEN <<>>
                   ELSE (IF chars[i].status = "active" /\ chars[i].name # playerName
                         THEN <<chars[i].name>> ELSE <<>>) \o From(i + 1)
    IN  From(1)

\* SendError that appends nothing.
NoSendError(msgs) == msgs

\* catch (e) { setMessages(prev => [...prev, { sender: 'system', text: `Error: ...` }]) }
SendError(msgs) == Append(msgs, SysMsg("error", "", ""))

\* Lines 164-175: the guard, the player's message, the busy flag, and the
\* requests of the reply stream, one per active non-player character.
HandleSendMessage(text) ==
    /\ SendAccepted(text)
    /\ LET names == ActiveAiNames(characters, playerCharacter.name)
       IN  send' = [pc |-> "stream", names |-> names,
                    reply |-> [i \in 1..Len(names) |-> "pending"],
                    k |-> 0, before |-> messages]
    /\ messages' = Append(messages, ChatMsg(playerCharacter.name, text))
    /\ isLoading' = TRUE
    /\ vote' = IdleVote
    /\ lastCall' = Call("send", "", text)
    /\ UNCHANGED portraitCall
    /\ used' = [used EXCEPT !.sends = @ + 1]
    /\ UNCHANGED <<gameState, characters, playerCharacter, sabotage, villain,
                   error, revealedCharactersCount, sceneImageUrl, tasks,
                   nextImg, startGame, timers>>

\* An entry that passes the outcome of the request on as it is.
RawEntry(outcome) == outcome

\* part_002:149-165: what the promise of one replier resolves to: the model's
\* trimmed text when generateContent answers ("ok"), the fallback "..." when
\* it throws ("error").
ReplyEntry(outcome) == IF outcome = "ok" THEN "reply" ELSE "placeholder"

\* part_002:150: the generateContent request of the i-th replier settles,
\* answered ("ok") or failed ("error").
ReplyArrives(i, r) ==
    /\ send.pc = "stream"
    /\ i \in 1..Len(send.names)
    /\ send.reply[i] = "pending"
    /\ send' = [send EXCEPT !.reply[i] = r]
    /\ lastCall' = NoCall
    /\ UNCHANGED portraitCall
    /\ UNCHANGED <<gameState, characters, playerCharacter, messages, sabotage,
                   villain, isLoading, error, revealedCharactersCount,
                   sceneImageUrl, vote, tasks, nextImg, startGame, timers, used>>

\* part_002:170-172 and App.tsx:177-182: the next promise in creation order
\* is awaited and its entry appended.
AppendReply ==
    /\ send.pc = "stream"
    /\ send.k < Len(send.names)
    /\ send.reply[send.k + 1] # "pending"
    /\ messages' = Append(messages, Msg(send.names[send.k + 1], ReplyEntry(send.reply[send.k + 1]),
                                        "", "", FALSE, FALSE))
    /\ send' = [send EXCEPT !.k = @ + 1]
    /\ lastCall' = NoCall
    /\ UNCHANGED portraitCall
    /\ UNCHANGED <<gameState, characters, playerCharacter, sabotage, villain,
                   isLoading, error, revealedCharactersCount, sceneImageUrl,
                   vote, tasks, nextImg, startGame, timers, used>>

\* SendDone without the finally block: the busy flag stays set.
SendDoneStaysBusy ==
    /\ send.pc = "stream"
    /\ send.k = Len(send.names)
    /\ send' = [send EXCEPT !.pc = "done"]
    /\ lastCall' = NoCall
    /\ UNCHANGED portraitCall
    /\ UNCHANGED <<gameState, characters, playerCharacter, messages, sabotage,
                   villain, isLoading, error, revealedCharactersCount,
                   sceneImageUrl, vote, tasks, nextImg, startGame, timers, used>>

\* The stream is exhausted: the finally block (lines 186-188).
SendDone ==
    /\ send.pc = "stream"
    /\ send.k = Len(send.names)
    /\ isLoading' = FALSE
    /\ send' = [send EXCEPT !.pc = "done"]
    /\ lastCall' = NoCall
    /\ UNCHANGED portraitCall
    /\ UNCHANGED <<gameState, characters, playerCharacter, messages, sabotage,
                   villain, error, revealedCharactersCount, sceneImageUrl, vote,
                   tasks, nextImg, startGame, timers, used>>

\* The awaited promise rejects and the iteration throws: catch and finally
\* (lines 183-188).
GetCharacterResponsesThrows ==
    /\ send.pc = "stream"
    /\ send.k < Len(send.names)
    /\ send.reply[send.k + 1] = "pending"
    /\ messages' = SendError(messages)
    /\ isLoading' = FALSE
    /\ send' = [send EXCEPT !.pc = "failed"]
    /\ lastCall' = NoCall
    /\ UNCHANGED portraitCall
    /\ UNCHANGED <<gameState, characters, playerCharacter, sabotage, villain,
                   error, revealedCharactersCount, sceneImageUrl, vote, tasks,
                   nextImg, startGame, timers, used>>

----------------------------------------------------------------------------
(* One vote round, from any state in which the voting phase can stand.     *)

\* The names a call of handlePlayerVote(votedName: string) may carry: the
\* player c1, the characters that are never voted out (c2, c3), one that may be
\* (c4), and a name that no character carries.
BallotNames == {"c1", "c2", "c3", "c4", Unknown}

\* The names the rendered vote buttons pass to onVote: a card has the button
\* only while its character is not voted out, and the player's own is disabled.
VoteButtons(chars) ==
    {chars[i].name : i \in {j \in ActiveIdx(chars) : ~chars[j].isPlayer}}

\* What the gateway may put into one entry of data.votes: c2 or c4 voting for
\* one of four of these names, and the player or a stranger casting a vote.
Ballots ==
    [voter : {"c2", "c4"}, votedFor : BallotNames \ {"c3"}]
        \cup [voter : {"c1", Unknown}, votedFor : {"c2"}]
VoteLists == UNION {[1..k -> Ballots] : k \in 0..MaxAiVotes}

\* Rosters at the start of a vote round: 4 or 5 characters, the player first,
\* the villain first or second, and only innocent non-player characters voted
\* out (the fourth, then the fifth), at least three characters being active.
RoundRosters ==
    {[i \in 1..n |->
        [NewCharacter(i, [n |-> n, villains |-> {v}, visual |-> {1, 3, 4}], 1)
            EXCEPT !.status = IF 4 <= i /\ i < 4 + out THEN "voted_out" ELSE "active"]] :
     <<n, v, out>> \in
        {q \in (MinChars..MaxChars) \X (1..2) \X (0..2) : q[1] - q[3] >= 3}}

RosterPlayer(chars) ==
    LET c == chars[CHOOSE i \in 1..Len(chars) : chars[i].isPlayer]
    IN  [name |-> c.name, isVillain |-> c.isVillain]

RosterVillain(chars) ==
    LET i == FindVillainIdx(chars)
    IN  IF i = 0 THEN NoChar
        ELSE [name |-> chars[i].name, isVillain |-> chars[i].isVillain]

InitRound ==
    /\ gameState = "voting"
    /\ characters \in RoundRosters
    /\ playerCharacter = RosterPlayer(characters)
    /\ villain = RosterVillain(characters)
    /\ messages = InitialMessages(playerCharacter.name)
    /\ sabotage = "sabotage"
    /\ isLoading = FALSE
    /\ error = ""
    /\ revealedCharactersCount = Len(characters)
    /\ sceneImageUrl \in {NoImg, 1}
    /\ vote = IdleVote
    /\ tasks = {}
    /\ nextImg = 2
    /\ startGame = "idle"
    /\ send = IdleSend
    /\ timers = 0
    /\ lastCall = NoCall
    /\ used = [NoneUsed EXCEPT !.games = 1]
    /\ portraitCall = NoPortraitCall

\* A round as the page drives it: the vote comes from a vote button.
NextRound ==
    \/ \E votedName \in VoteButtons(characters) : HandlePlayerVote(votedName)
    \/ GetVoteAndConfessionThrows
    \/ \E aiVotes \in VoteLists : GetVoteAndConfessionReturns(aiVotes)
    \/ RevealVote
    \/ DetermineResult
    \/ AnnounceResult

SpecRound == InitRound /\ [][NextRound]_vars

\* A round of the handler by itself: handlePlayerVote checks the phase, the
\* player and the busy flag, and takes whatever string it is called with.
NextHandler ==
    \/ \E votedName \in BallotNames : HandlePlayerVote(votedName)
    \/ GetVoteAndConfessionThrows
    \/ \E aiVotes \in VoteLists : GetVoteAndConfessionReturns(aiVotes)
    \/ RevealVote
    \/ DetermineResult
    \/ AnnounceResult

SpecHandler == InitRound /\ [][NextHandler]_vars

----------------------------------------------------------------------------
(* The session: setup, briefing, phase buttons, play again and the image   *)
(* tasks that run in the background.                                       *)

\* Image promises: the scene image and the portraits of a setup, the scene
\* edit of a vote round. idx is the roster index the result is meant for.
\* Lines 80-88: the welcome page's start button (line 391, disabled while
\* isLoading) runs handleStartGame up to its await.
HandleStartGame ==
    /\ gameState = "welcome"
    /\ ~isLoading
    /\ isLoading' = TRUE
    /\ error' = ""
    /\ gameState' = "setting_up"
    /\ messages' = << SysMsg("receiving", "", "") >>
    /\ startGame' = "await"
    /\ lastCall' = Call("start", "", <<>>)
    /\ UNCHANGED portraitCall
    /\ used' = [used EXCEPT !.games = @ + 1]
    /\ UNCHANGED <<characters, playerCharacter, sabotage, villain,
                   revealedCharactersCount, sceneImageUrl, vote, tasks, nextImg,
                   send, timers>>

\* A catch block that reports the failure in the transcript instead.
GenerateGameSetupTextThrowsToTranscript ==
    /\ startGame = "await"
    /\ messages' = Append(messages, SysMsg("error", "", ""))
    /\ gameState' = "welcome"
    /\ isLoading' = FALSE
    /\ startGame' = "idle"
    /\ lastCall' = NoCall
    /\ UNCHANGED portraitCall
    /\ UNCHANGED <<characters, playerCharacter, error, sabotage, villain,
                   revealedCharactersCount, sceneImageUrl, vote, tasks, nextImg,
                   send, timers, used>>

\* generateGameSetupText rejects: the catch block (lines 156-161).
GenerateGameSetupTextThrows ==
    /\ startGame = "await"
    /\ error' = "error"
    /\ gameState' = "welcome"
    /\ isLoading' = FALSE
    /\ startGame' = "idle"
    /\ lastCall' = NoCall
    /\ UNCHANGED portraitCall
    /\ UNCHANGED <<characters, playerCharacter, messages, sabotage, villain,
                   revealedCharactersCount, sceneImageUrl, vote, tasks, nextImg,
                   send, timers, used>>

\* generateGameSetupText resolves (lines 88-154): roster, player, villain,
\* initial messages, phase briefing, and the image requests. The render that
\* follows is committed with the revealed count as it stands; its briefing
\* effect (lines 65-77) is passive and runs after the commit.
GenerateGameSetupTextReturns(su, playerIndex) ==
    /\ startGame = "await"
    /\ playerIndex \in 1..su.n
    /\ LET newCharacters == NewCharacters(su, playerIndex)
           player == newCharacters[playerIndex]
       IN  /\ playerCharacter' = [name |-> player.name, isVillain |-> player.isVillain]
           /\ characters' = newCharacters
           /\ villain' = RosterVillain(newCharacters)
           /\ messages' = InitialMessages(player.name)
    /\ sabotage' = "sabotage"
    /\ gameState' = "briefing"
    /\ isLoading' = FALSE
    /\ tasks' = tasks \cup {SceneTask(nextImg)}
                      \cup {PortraitTask(i, nextImg + i) : i \in su.portraits}
    /\ nextImg' = nextImg + su.n + 1
    /\ startGame' = "effect"
    /\ lastCall' = NoCall
    /\ UNCHANGED portraitCall
    /\ UNCHANGED <<error, revealedCharactersCount, sceneImageUrl, vote, send,
                   timers, used>>

\* Lines 65-77: the briefing effect zeroes the revealed count and sets one
\* timer per character.
BriefingEffect ==
    /\ startGame = "effect"
    /\ revealedCharactersCount' = 0
    /\ timers' = Len(characters)
    /\ startGame' = "idle"
    /\ lastCall' = NoCall
    /\ UNCHANGED portraitCall
    /\ UNCHANGED <<gameState, characters, playerCharacter, messages, sabotage,
                   villain, isLoading, error, sceneImageUrl, vote, tasks,
                   nextImg, send, used>>

\* generateGameSetupText resolves with characters: [] (lines 88-113, 156-161):
\* find yields undefined, the setters of lines 105-109 run, building the
\* initial messages reads player.name and throws, and the catch block runs.
GenerateGameSetupTextEmpty ==
    /\ startGame = "await"
    /\ playerCharacter' = NoChar
    /\ characters' = <<>>
    /\ sabotage' = "sabotage"
    /\ villain' = NoChar
    /\ error' = "error"
    /\ gameState' = "welcome"
    /\ isLoading' = FALSE
    /\ startGame' = "idle"
    /\ lastCall' = NoCall
    /\ UNCHANGED portraitCall
    /\ UNCHANGED <<messages, revealedCharactersCount, sceneImageUrl, vote, tasks,
                   nextImg, send, timers, used>>

\* Lines 70-72: one briefing timer fires.
TimerFires ==
    /\ timers > 0
    /\ timers' = timers - 1
    /\ revealedCharactersCount' = revealedCharactersCount + 1
    /\ lastCall' = NoCall
    /\ UNCHANGED portraitCall
    /\ UNCHANGED <<gameState, characters, playerCharacter, messages, sabotage,
                   villain, isLoading, error, sceneImageUrl, vote, tasks,
                   nextImg, startGame, send, used>>

\* Lines 426-432: the briefing's button, rendered when the revealed count of
\* the committed render equals the number of characters; leaving briefing
\* clears the effect's timers (line 75). A click that comes before the
\* briefing effect has run makes React run the effect first, then the update.
HandleContinue ==
    /\ gameState = "briefing"
    /\ revealedCharactersCount = Len(characters)
    /\ Len(characters) > 0
    /\ gameState' = "discussion"
    /\ timers' = 0
    /\ revealedCharactersCount' =
          IF startGame = "effect" THEN 0 ELSE revealedCharactersCount
    /\ startGame' = "idle"
    /\ lastCall' = Call("continue", "", <<>>)
    /\ UNCHANGED portraitCall
    /\ UNCHANGED <<characters, playerCharacter, messages, sabotage, villain,
                   isLoading, error, sceneImageUrl, vote, tasks, nextImg, send,
                   used>>

\* The vote button of the discussion form stays enabled while busy.
StartVotingEnabledWhileBusy == gameState = "discussion"

\* Line 499: the vote button of the discussion form, disabled while isLoading.
StartVotingEnabled == gameState = "discussion" /\ ~isLoading

HandleStartVoting ==
    /\ StartVotingEnabled
    /\ gameState' = "voting"
    /\ vote' = IdleVote
    /\ send' = IdleSend
    /\ lastCall' = Call("startVoting", "", <<>>)
    /\ UNCHANGED portraitCall
    /\ UNCHANGED <<characters, playerCharacter, messages, sabotage, villain,
                   isLoading, error, revealedCharactersCount, sceneImageUrl,
                   tasks, nextImg, startGame, timers, used>>

\* Lines 373-382, behind the button of the game-over page (lines 506-510).
HandlePlayAgain ==
    /\ gameState \in {"game_over_win", "game_over_loss"}
    /\ gameState' = "welcome"
    /\ characters' = <<>>
    /\ messages' = <<>>
    /\ villain' = NoChar
    /\ error' = ""
    /\ playerCharacter' = NoChar
    /\ sabotage' = ""
    /\ sceneImageUrl' = NoImg
    /\ vote' = IdleVote
    /\ send' = IdleSend
    /\ lastCall' = Call("playAgain", "", <<>>)
    /\ UNCHANGED portraitCall
    /\ UNCHANGED <<isLoading, revealedCharactersCount, tasks, nextImg,
                   startGame, timers, used>>

\* AttachImage that appends the illustrated announcement instead.
AppendImage(msgs, img) ==
    Append(msgs, [SpecialMsg("sabotage", "", "") EXCEPT !.imageUrl = img])

\* AttachImage without the isSpecial test.
AttachImageToAll(msgs, img) ==
    [i \in 1..Len(msgs) |-> [msgs[i] EXCEPT !.imageUrl = img]]

\* msg.isSpecial ? { ...msg, imageUrl } : msg
AttachImage(msgs, img) ==
    [i \in 1..Len(msgs) |->
        IF msgs[i].isSpecial THEN [msgs[i] EXCEPT !.imageUrl = img] ELSE msgs[i]]

\* SetPortrait that rebuilds the character as the setup made it.
SetPortraitOfNew(chars, idx, img) ==
    IF idx \in 1..Len(chars)
    THEN [chars EXCEPT ![idx].imageUrl = img, ![idx].votes = 0, ![idx].status = "active"]
    ELSE chars

\* if (updatedChars[index]) { updatedChars[index].imageUrl = imageUrl; }
SetPortrait(chars, idx, img) ==
    IF idx \in 1..Len(chars) THEN [chars EXCEPT ![idx].imageUrl = img] ELSE chars

\* The .then callback of an image promise that resolved with an image:
\* lines 131-138 (scene), 143-153 (portrait), 286-293 (scene edit).
ImageArrives(t) ==
    /\ t \in tasks
    /\ startGame # "effect"
    /\ tasks' = tasks \ {t}
    /\ IF t.kind = "portrait"
       THEN /\ characters' = SetPortrait(characters, t.idx, t.img)
            /\ UNCHANGED <<sceneImageUrl, messages>>
       ELSE /\ sceneImageUrl' = t.img
            /\ messages' = AttachImage(messages, t.img)
            /\ UNCHANGED characters
    /\ lastCall' = NoCall
    /\ UNCHANGED portraitCall
    /\ UNCHANGED <<gameState, playerCharacter, sabotage, villain, isLoading,
                   error, revealedCharactersCount, vote, nextImg, startGame,
                   send, timers, used>>

\* ImageFails that reports the failure in the transcript.
ImageFailsWithError(t) ==
    /\ t \in tasks
    /\ tasks' = tasks \ {t}
    /\ messages' = Append(messages, SysMsg("error", "", ""))
    /\ lastCall' = NoCall
    /\ UNCHANGED portraitCall
    /\ UNCHANGED <<gameState, characters, playerCharacter, sabotage, villain,
                   isLoading, error, revealedCharactersCount, sceneImageUrl,
                   vote, nextImg, startGame, send, timers, used>>

\* The promise resolved with null: the callback does nothing.
ImageFails(t) ==
    /\ t \in tasks
    /\ tasks' = tasks \ {t}
    /\ lastCall' = NoCall
    /\ UNCHANGED portraitCall
    /\ UNCHANGED <<gameState, characters, playerCharacter, messages, sabotage,
                   villain, isLoading, error, revealedCharactersCount,
                   sceneImageUrl, vote, nextImg, startGame, send, timers, used>>

\* Bounds of a run: games started, messages sent and vote rounds started.
MaxGames == 2
MaxSends == 1
MaxRounds == 2

\* Setups the gateway answers with: four or five characters, the second one
\* the villain; of four, the third has a portrait prompt; of five, the third
\* has a visual description.
Setups ==
    {[n |-> n, villains |-> {2},
      visual |-> IF n = MinChars THEN {} ELSE {3},
      portraits |-> IF n = MinChars THEN {3} ELSE {}] : n \in MinChars..MaxChars}

\* Math.floor(Math.random() * length): of four characters the player is the
\* first, an innocent one; of five, the second, the villain.
PlayerIndexes(su) == IF su.n = MinChars THEN {1} ELSE {2}

\* Input texts: blank, and a word after a blank.
Texts == {<<" ">>, <<" ", "a">>}

\* Vote lists of the gateway: none, both colleagues against the player, two
\* votes for a stranger.
SessionVoteLists ==
    { <<>>,
      << [voter |-> "c2", votedFor |-> "c1"], [voter |-> "c3", votedFor |-> "c1"] >>,
      << [voter |-> "c3", votedFor |-> Unknown], [voter |-> "c4", votedFor |-> Unknown] >> }

Init ==
    /\ gameState = "welcome"
    /\ characters = <<>>
    /\ playerCharacter = NoChar
    /\ messages = <<>>
    /\ sabotage = ""
    /\ villain = NoChar
    /\ isLoading = FALSE
    /\ error = ""
    /\ revealedCharactersCount = 0
    /\ sceneImageUrl = NoImg
    /\ vote = IdleVote
    /\ tasks = {}
    /\ nextImg = 1
    /\ startGame = "idle"
    /\ send = IdleSend
    /\ timers = 0
    /\ lastCall = NoCall
    /\ used = NoneUsed
    /\ portraitCall = NoPortraitCall

\* What the player and the text gateway do.
NextCore ==
    \/ used.games < MaxGames /\ HandleStartGame
    \/ GenerateGameSetupTextThrows
    \/ \E su \in Setups : \E playerIndex \in PlayerIndexes(su) :
          GenerateGameSetupTextReturns(su, playerIndex)
    \/ BriefingEffect
    \/ TimerFires
    \/ HandleContinue
    \/ used.sends < MaxSends /\ \E text \in Texts : HandleSendMessage(text)
    \/ ReplyArrives(send.k + 1, "ok")
    \/ AppendReply
    \/ SendDone
    \/ GetCharacterResponsesThrows
    \/ HandleStartVoting
    \/ used.rounds < MaxRounds /\
          \E votedName \in VoteButtons(characters) : HandlePlayerVote(votedName)
    \/ GetVoteAndConfessionThrows
    \/ \E aiVotes \in SessionVoteLists : GetVoteAndConfessionReturns(aiVotes)
    \/ RevealVote
    \/ DetermineResult
    \/ AnnounceResult
    \/ HandlePlayAgain

Next ==
    \/ NextCore
    \/ \E t \in tasks : ImageArrives(t)
    \/ \E t \in tasks : ImageFails(t)

Spec == Init /\ [][Next]_vars

\* A handler called while its guard fails returns at once (lines 166, 192);
\* the step only records the call.
HandleSendMessageReturns(text) ==
    /\ ~SendAccepted(text)
    /\ lastCall' = Call("send", "", text)
    /\ UNCHANGED portraitCall
    /\ UNCHANGED <<gameState, characters, playerCharacter, messages, sabotage,
                   villain, isLoading, error, revealedCharactersCount,
                   sceneImageUrl, vote, tasks, nextImg, startGame, send, timers,
                   used>>

HandlePlayerVoteReturns(votedName) ==
    /\ ~VoteAccepted
    /\ lastCall' = Call("vote", votedName, <<>>)
    /\ UNCHANGED portraitCall
    /\ UNCHANGED <<gameState, characters, playerCharacter, messages, sabotage,
                   villain, isLoading, error, revealedCharactersCount,
                   sceneImageUrl, vote, tasks, nextImg, startGame, send, timers,
                   used>>

\* The session with the two guarded handlers called at any time, whatever the
\* page shows: a call is either taken up or returns at its guard. The image
\* promises stay pending.
NextGuard ==
    \/ NextCore
    \/ \E text \in Texts : HandleSendMessageReturns(text)
    \/ HandlePlayerVoteReturns("c2")

SpecGuard == Init /\ [][NextGuard]_vars

----------------------------------------------------------------------------
(* Setting a game up from whatever the parsed JSON of the gateway holds: the *)
(* schema asks for 4-5 characters and one villain, the code checks neither.  *)
(* The image promises stay pending.                                          *)

MaxVillains == 2

\* gameData.characters as JSON.parse returns it (geminiService.ts:110-116):
\* any number of entries, any of them flagged isVillain.
RawSetups ==
    {[n |-> n, villains |-> vs, visual |-> {}, portraits |-> {}] :
        <<n, vs>> \in {q \in (0..MaxChars) \X (SUBSET (1..MaxChars)) :
                         q[2] \subseteq 1..q[1] /\ Cardinality(q[2]) <= MaxVillains}}

NextSetup ==
    \/ used.games < MaxGames /\ HandleStartGame
    \/ GenerateGameSetupTextThrows
    \/ \E su \in RawSetups : \E playerIndex \in 1..su.n :
          GenerateGameSetupTextReturns(su, playerIndex)
    \/ GenerateGameSetupTextEmpty
    \/ BriefingEffect
    \/ TimerFires
    \/ HandleContinue

SpecSetup == Init /\ [][NextSetup]_vars

\* A game set up from such a list and taken through its vote rounds.
NextUnchecked ==
    \/ used.games = 0 /\ HandleStartGame
    \/ \E su \in RawSetups : \E playerIndex \in 1..su.n :
          GenerateGameSetupTextReturns(su, playerIndex)
    \/ BriefingEffect
    \/ TimerFires
    \/ HandleContinue
    \/ HandleStartVoting
    \/ used.rounds < MaxRounds /\
          \E votedName \in VoteButtons(characters) : HandlePlayerVote(votedName)
    \/ GetVoteAndConfessionThrows
    \/ \E aiVotes \in SessionVoteLists : GetVoteAndConfessionReturns(aiVotes)
    \/ RevealVote
    \/ DetermineResult
    \/ AnnounceResult

SpecUnchecked == Init /\ [][NextUnchecked]_vars

\* Ballots of the colleagues c2, c3 and c5 for the player, a colleague, or the
\* character that may be voted out already (c4).
ColleagueBallots == [voter : {"c2", "c3", "c5"}, votedFor : {"c1", "c2", "c4"}]
ColleagueVoteLists == UNION {[1..k -> ColleagueBallots] : k \in 0..MaxAiVotes}

\* Round after round: a round that returns to discussion is followed by the
\* vote button of the discussion form and the next round.
NextRounds ==
    \/ HandleStartVoting
    \/ used.rounds < MaxRounds /\
          \E votedName \in VoteButtons(characters) : HandlePlayerVote(votedName)
    \/ GetVoteAndConfessionThrows
    \/ \E aiVotes \in ColleagueVoteLists : GetVoteAndConfessionReturns(aiVotes)
    \/ RevealVote
    \/ DetermineResult
    \/ AnnounceResult

SpecRounds == InitRound /\ [][NextRounds]_vars

----------------------------------------------------------------------------
(* One game with its images: five characters, two of the innocent ones with *)
(* a portrait prompt and a visual description, so that two vote rounds can  *)
(* each launch an edit of the scene image while portraits are still due.    *)

ImageSetup == [n |-> MaxChars, villains |-> {2}, visual |-> {3, 4}, portraits |-> {3, 4}]

NextImages ==
    \/ used.games = 0 /\ HandleStartGame
    \/ GenerateGameSetupTextReturns(ImageSetup, 1)
    \/ BriefingEffect
    \/ TimerFires
    \/ HandleContinue
    \/ HandleStartVoting
    \/ used.rounds < MaxRounds /\
          \E votedName \in VoteButtons(characters) : HandlePlayerVote(votedName)
    \/ GetVoteAndConfessionReturns(<<>>)
    \/ RevealVote
    \/ DetermineResult
    \/ AnnounceResult
    \/ \E t \in tasks : ImageArrives(t)
    \/ \E t \in tasks : ImageFails(t)

SpecImages == Init /\ [][NextImages]_vars

----------------------------------------------------------------------------
(* generateCharacterPortraits of services/geminiService.ts, by itself: one  *)
(* generateImages request per prompt, each answered with an image ("ok"),   *)
(* rejected ("error") or answered with no image in it ("empty").            *)

MaxPrompts == 4

RequestOutcomes == {"ok", "error", "empty"}

OutcomeLists == UNION {[1..k -> RequestOutcomes] : k \in 0..MaxPrompts}

\* geminiService.ts:146-170. No prompts: []. Otherwise Promise.all over the
\* requests: when all are answered, the image of each in the order of the
\* prompts (the image of the i-th request is written i); when one rejects,
\* or reading generatedImages[0].image throws, the catch block returns
\* Array(prompts.length).fill(null).
GenerateCharacterPortraits(outcomes) ==
    IF Len(outcomes) = 0 THEN <<>>
    ELSE IF \A i \in 1..Len(outcomes) : outcomes[i] = "ok"
         THEN [i \in 1..Len(outcomes) |-> i]
         ELSE [i \in 1..Len(outcomes) |-> NoImg]

InitPortraits ==
    /\ gameState = "welcome"
    /\ characters = <<>>
    /\ playerCharacter = NoChar
    /\ messages = <<>>
    /\ sabotage = ""
    /\ villain = NoChar
    /\ isLoading = FALSE
    /\ error = ""
    /\ revealedCharactersCount = 0
    /\ sceneImageUrl = NoImg
    /\ vote = IdleVote
    /\ tasks = {}
    /\ nextImg = 1
    /\ startGame = "idle"
    /\ send = IdleSend
    /\ timers = 0
    /\ lastCall = NoCall
    /\ used = NoneUsed
    /\ portraitCall \in [pc : {"called"}, outcomes : OutcomeLists, result : {<<>>}]

GenerateCharacterPortraitsReturns ==
    /\ portraitCall.pc = "called"
    /\ portraitCall' = [portraitCall EXCEPT
                           !.pc = "returned",
                           !.result = GenerateCharacterPortraits(portraitCall.outcomes)]
    /\ UNCHANGED <<gameState, characters, playerCharacter, messages, sabotage,
                   villain, isLoading, error, revealedCharactersCount,
                   sceneImageUrl, vote, tasks, nextImg, startGame, send, timers,
                   lastCall, used>>

NextPortraits == GenerateCharacterPortraitsReturns

SpecPortraits == InitPortraits /\ [][NextPortraits]_vars

----------------------------------------------------------------------------
(* One message of the player and its replies, from any state in which the  *)
(* discussion phase can stand, with every reply settling either way and in *)
(* any order.                                                              *)

InitDiscussion ==
    /\ gameState = "discussion"
    /\ characters \in RoundRosters
    /\ playerCharacter = RosterPlayer(characters)
    /\ villain = RosterVillain(characters)
    /\ messages = InitialMessages(playerCharacter.name)
    /\ sabotage = "sabotage"
    /\ isLoading = FALSE
    /\ error = ""
    /\ revealedCharactersCount = Len(characters)
    /\ sceneImageUrl = NoImg
    /\ vote = IdleVote
    /\ tasks = {}
    /\ nextImg = 2
    /\ startGame = "idle"
    /\ send = IdleSend
    /\ timers = 0
    /\ lastCall = NoCall
    /\ used = [NoneUsed EXCEPT !.games = 1]
    /\ portraitCall = NoPortraitCall

\* Input texts of the form: empty, blank, a word, a word between blanks.
SendTexts == {<<>>, <<" ">>, <<"a">>, <<" ", "a", " ">>}

NextSend ==
    \/ used.sends < MaxSends /\ \E text \in SendTexts : HandleSendMessage(text)
    \/ \E i \in 1..MaxChars, r \in {"ok", "error"} : ReplyArrives(i, r)
    \/ AppendReply
    \/ SendDone
    \/ GetCharacterResponsesThrows

SpecSend == InitDiscussion /\ [][NextSend]_vars

----------------------------------------------------------------------------
(* Discussion and voting with the scheduling the runtime gives: a promise  *)
(* that can settle does, a timer that is set fires, a continuation that is *)
(* ready runs.                                                             *)

NextLive ==
    \/ used.sends < MaxSends /\ \E text \in Texts : HandleSendMessage(text)
    \/ ReplyArrives(send.k + 1, "ok")
    \/ AppendReply
    \/ SendDone
    \/ GetCharacterResponsesThrows
    \/ HandleStartVoting
    \/ used.rounds < MaxRounds /\
          \E votedName \in VoteButtons(characters) : HandlePlayerVote(votedName)
    \/ GetVoteAndConfessionThrows
    \/ \E aiVotes \in SessionVoteLists : GetVoteAndConfessionReturns(aiVotes)
    \/ RevealVote
    \/ DetermineResult
    \/ AnnounceResult

\* Each gateway call returns or fails; each await of a handler resumes.
GatewayAnswers ==
    /\ WF_vars(ReplyArrives(send.k + 1, "ok") \/ GetCharacterResponsesThrows)
    /\ WF_vars(GetVoteAndConfessionThrows
                  \/ \E aiVotes \in SessionVoteLists : GetVoteAndConfessionReturns(aiVotes))

HandlersResume ==
    /\ WF_vars(AppendReply)
    /\ WF_vars(SendDone)
    /\ WF_vars(RevealVote)
    /\ WF_vars(DetermineResult)
    /\ WF_vars(AnnounceResult)

SpecLive == InitDiscussion /\ [][NextLive]_vars /\ GatewayAnswers /\ HandlersResume

----------------------------------------------------------------------------
(* Properties of a vote round.                                             *)

\* The round has come to the end of handlePlayerVote.
RoundDone == vote.pc = "done"

\* The round got votes from the gateway and built its final vote set.
ReachedTally == vote.allVotes # <<>>

\* The tally is complete: every ballot of the final vote set is counted.
TallyComplete == ReachedTally /\ vote.k = Len(vote.allVotes)

\* The names with the highest tally, when that tally is not zero.
TopNames == {n \in DOMAIN vote.tally :
                /\ vote.tally[n] > 0
                /\ \A m \in DOMAIN vote.tally : vote.tally[m] <= vote.tally[n]}

\* Roster facts, read from the characters as they stood when the round began.
IsCharacter(n) == \E i \in 1..Len(vote.chars) : vote.chars[i].name = n
IsVillainName(n) ==
    \E i \in 1..Len(vote.chars) : vote.chars[i].name = n /\ vote.chars[i].isVillain
IsPlayerName(n) ==
    \E i \in 1..Len(vote.chars) : vote.chars[i].name = n /\ vote.chars[i].isPlayer
PlayerIsVillain ==
    \E i \in 1..Len(vote.chars) : vote.chars[i].isPlayer /\ vote.chars[i].isVillain
ActiveBefore == Cardinality({i \in 1..Len(vote.chars) : vote.chars[i].status = "active"})
ActiveNow == Cardinality({i \in 1..Len(characters) : characters[i].status = "active"})
StatusOf(n) == characters[CHOOSE i \in 1..Len(characters) : characters[i].name = n].status
StatusUnchanged ==
    /\ Len(characters) = Len(vote.chars)
    /\ \A i \in 1..Len(characters) : characters[i].status = vote.chars[i].status

\* Exactly one name is on top, and it is n.
SoleTop(n) == TallyComplete /\ TopNames = {n}

\* The subsequence of s at the positions in idx, in order.
RECURSIVE Pick(_, _, _)
Pick(s, idx, i) ==
    IF i > Len(s) THEN <<>>
    ELSE (IF i \in idx THEN <<s[i]>> ELSE <<>>) \o Pick(s, idx, i + 1)

\* Positions of the gateway's list whose voter is an active non-player
\* character that no earlier position names.
FirstOfActiveAi(ai) ==
    {i \in 1..Len(ai) :
        /\ \E j \in 1..Len(vote.chars) :
              /\ vote.chars[j].name = ai[i].voter
              /\ vote.chars[j].status = "active"
              /\ ~vote.chars[j].isPlayer
        /\ \A j \in 1..(i - 1) : ai[j].voter # ai[i].voter}

\* C1: the accepted AI votes are the gateway's list filtered, in order, to the
\* first entry per voter whose voter is an active non-player character; votes
\* by the player, by a voted_out character, by an unknown name, and later
\* votes by an accepted voter are dropped.
C1_FirstVotePerActiveAi ==
    (vote.pc = "reveal" /\ vote.k = 0) =>
        Tail(vote.allVotes) = Pick(vote.aiVotes, FirstOfActiveAi(vote.aiVotes), 1)

\* C1 witness: a list in which c2 votes twice has been filtered down to the
\* first vote of c2.
C1_Witness ==
    /\ vote.pc = "reveal" /\ vote.k = 0
    /\ vote.aiVotes = << [voter |-> "c2", votedFor |-> "c4"],
                         [voter |-> "c2", votedFor |-> Unknown] >>
    /\ Tail(vote.allVotes) = << [voter |-> "c2", votedFor |-> "c4"] >>

\* C2: when two or more names share the highest non-zero tally, no status
\* changes and the phase is game_over_win if the player is the villain and
\* game_over_loss otherwise, whoever the tied names are.
C2_TieVillainWins ==
    (TallyComplete /\ Cardinality(TopNames) >= 2) =>
        /\ StatusUnchanged
        /\ RoundDone =>
              gameState = IF PlayerIsVillain THEN "game_over_win" ELSE "game_over_loss"

\* C2 witness: a finished round tied between a character and a name nobody
\* carries, the player being the villain.
C2_Witness ==
    /\ RoundDone /\ TallyComplete
    /\ Cardinality(TopNames) >= 2 /\ Unknown \in TopNames
    /\ PlayerIsVillain /\ gameState = "game_over_win"

\* C3: when exactly one name has the highest non-zero tally and that
\* character is the villain, it becomes voted_out and the phase is
\* game_over_win if the player is not the villain, game_over_loss if it is.
C3_VillainCaught ==
    \A n \in DOMAIN vote.tally :
        (RoundDone /\ SoleTop(n) /\ IsVillainName(n)) =>
            /\ StatusOf(n) = "voted_out"
            /\ gameState = IF PlayerIsVillain THEN "game_over_loss" ELSE "game_over_win"

\* C3 witness: the villain, who is not the player, was voted out alone.
C3_Witness ==
    /\ RoundDone /\ SoleTop("c2") /\ IsVillainName("c2") /\ ~PlayerIsVillain
    /\ gameState = "game_over_win"

\* C4: when the single eliminated character is the innocent player, the phase
\* is game_over_loss whatever the number of active characters left, and the
\* round never goes back to discussion.
C4_InnocentPlayerOut ==
    \A n \in DOMAIN vote.tally :
        (SoleTop(n) /\ vote.pc \in {"single_wait", "done"}
                    /\ IsPlayerName(n) /\ ~PlayerIsVillain) =>
            /\ gameState = IF RoundDone THEN "game_over_loss" ELSE "reveal"
            /\ StatusOf(n) = "voted_out"

\* C4 witness: the innocent player was voted out of a full roster of five.
C4_Witness ==
    /\ RoundDone /\ SoleTop("c1") /\ IsPlayerName("c1") /\ ~PlayerIsVillain
    /\ ActiveBefore = 5 /\ gameState = "game_over_loss"

\* The single name on top is an innocent character that is not the player.
InnocentAiOut(n) ==
    SoleTop(n) /\ IsCharacter(n) /\ ~IsVillainName(n) /\ ~IsPlayerName(n)

\* C5 (as amended): when the single eliminated character is an innocent
\* non-player and the number active before the round minus one exceeds 2, it
\* is voted_out, every votes counter is 0 and the phase is discussion again;
\* five active before the round leave four.
C5_GameContinues ==
    \A n \in DOMAIN vote.tally :
        (RoundDone /\ InnocentAiOut(n) /\ ActiveBefore - 1 > 2) =>
            /\ StatusOf(n) = "voted_out"
            /\ \A i \in 1..Len(characters) : characters[i].votes = 0
            /\ gameState = "discussion"
            /\ (ActiveBefore = 5 => ActiveNow = 4)

\* C5 witness: an innocent colleague was voted out of five active characters
\* and the game went on.
C5_Witness ==
    /\ RoundDone /\ InnocentAiOut("c4") /\ ActiveBefore = 5
    /\ gameState = "discussion" /\ StatusOf("c4") = "voted_out"

\* C5 as stated: the same, with five active before the round leaving three.
C5_AsStated ==
    \A n \in DOMAIN vote.tally :
        (RoundDone /\ InnocentAiOut(n) /\ ActiveBefore - 1 > 2) =>
            /\ StatusOf(n) = "voted_out"
            /\ \A i \in 1..Len(characters) : characters[i].votes = 0
            /\ gameState = "discussion"
            /\ (ActiveBefore = 5 => ActiveNow = 3)

\* C6: when the single eliminated character is an innocent non-player and
\* the number active before the round minus one is at most 2, the game ends:
\* game_over_win if the player is the villain, game_over_loss otherwise.
C6_Attrition ==
    \A n \in DOMAIN vote.tally :
        (InnocentAiOut(n) /\ vote.pc \in {"single_wait", "done"} /\ ActiveBefore - 1 <= 2) =>
            gameState = IF ~RoundDone THEN "reveal"
                        ELSE IF PlayerIsVillain THEN "game_over_win" ELSE "game_over_loss"

\* C6 witness: three were active, an innocent colleague went, the villain won.
C6_Witness ==
    /\ RoundDone /\ InnocentAiOut("c3") /\ ActiveBefore = 3
    /\ ~PlayerIsVillain /\ gameState = "game_over_loss"

\* C7: a ballot for a name that no character carries raises no tally counter:
\* the tally has entries for character names only, such a name is never on
\* top of the tally and is never announced as eliminated.
C7_UnknownTargetUncounted ==
    /\ DOMAIN vote.tally \subseteq CharNames(characters)
    /\ TopNames \subseteq CharNames(characters)
    /\ \A i \in 1..Len(messages) :
          messages[i].kind = "fired" => messages[i].a \in CharNames(characters)

\* Every ballot of the round names somebody who is no character.
AllBallotsUnknown ==
    \A i \in 1..Len(vote.allVotes) : ~IsCharacter(vote.allVotes[i].votedFor)

ActiveNamesBefore ==
    {vote.chars[i].name : i \in {j \in 1..Len(vote.chars) : vote.chars[j].status = "active"}}

BallotsBy(n) == {i \in 1..Len(vote.allVotes) : vote.allVotes[i].voter = n}

\* C9 as stated: the final vote set holds exactly one ballot for each active
\* character, whatever the gateway returned.
C9_AsStated ==
    ReachedTally =>
        /\ \A n \in ActiveNamesBefore : Cardinality(BallotsBy(n)) = 1
        /\ \A i \in 1..Len(vote.allVotes) : vote.allVotes[i].voter \in ActiveNamesBefore

\* C9 (as amended): the final vote set holds the player's ballot, first, and
\* at most one ballot for each active non-player character, and no ballot of
\* anybody else.
C9_AtMostOneBallotEach ==
    ReachedTally =>
        /\ vote.allVotes[1] = [voter |-> vote.player.name, votedFor |-> vote.votedName]
        /\ Cardinality(BallotsBy(vote.player.name)) = 1
        /\ \A n \in ActiveNamesBefore : Cardinality(BallotsBy(n)) <= 1
        /\ \A i \in 1..Len(vote.allVotes) : vote.allVotes[i].voter \in ActiveNamesBefore

\* C9 witness: the gateway named c2 twice and the player once; the final vote
\* set holds the player's ballot and one ballot of c2.
C9_Witness ==
    /\ vote.pc = "reveal" /\ vote.k = 0
    /\ vote.aiVotes = << [voter |-> "c2", votedFor |-> "c1"],
                         [voter |-> "c1", votedFor |-> "c2"] >>
    /\ Len(vote.allVotes) = 2

\* The round ended in the catch block before any vote was received.
GatewayFailed == RoundDone /\ ~ReachedTally

\* C10: when the gateway call fails, one system error message is appended,
\* the phase is discussion again, no status has changed and every message
\* that was in the transcript is still there.
C10_GatewayFailure ==
    GatewayFailed =>
        /\ gameState = "discussion"
        /\ StatusUnchanged
        /\ Len(messages) = Len(vote.before) + 2
        /\ SubSeq(messages, 1, Len(vote.before)) = vote.before
        /\ messages[Len(messages)] = SysMsg("error", "", "")
        /\ Cardinality({i \in 1..Len(messages) : messages[i].kind = "error"}) = 1

\* C10 witness: a round that failed at the gateway.
C10_Witness ==
    /\ GatewayFailed /\ gameState = "discussion"
    /\ messages[Len(messages)].kind = "error"

----------------------------------------------------------------------------
(* Properties of the session.                                              *)

\* A call of handleSendMessage or handlePlayerVote is under way.
SendRunning == send.pc = "stream"
VoteRunning == vote.pc \notin {"idle", "done"}

\* C11: every handleSendMessage and every handlePlayerVote that passes its
\* guard ends with the busy flag false, on every path, provided each gateway
\* call returns or fails.
C11_BusyCleared ==
    (isLoading /\ (SendRunning \/ VoteRunning))
        ~> (~isLoading /\ ~SendRunning /\ ~VoteRunning)

\* C11 witness: a message was sent and answered, then a vote round ended the
\* game, and the busy flag is false.
C11_Witness ==
    /\ used.sends = 1 /\ used.rounds = 1
    /\ vote.pc = "done"
    /\ gameState \in {"game_over_win", "game_over_loss"}
    /\ ~isLoading

\* C12: while a reply request or a vote request of the player is in flight,
\* no second handleSendMessage, handlePlayerVote or switch to voting takes
\* effect, and the two handlers never run at once.
C12_OneRoundTripAtATime ==
    [][ /\ (SendRunning \/ VoteRunning) =>
              lastCall'.op \notin {"send", "vote", "startVoting"}
        /\ ~(SendRunning' /\ VoteRunning') ]_vars

\* C12 witness: a message was answered earlier and a vote request is in flight.
C12_Witness ==
    /\ vote.pc = "await_votes" /\ isLoading
    /\ used.sends = 1 /\ ~SendRunning

\* The text is empty once its leading and trailing blanks are removed.
Blank(text) == \A i \in 1..Len(text) : text[i] = " "

\* C13: handleSendMessage called outside discussion, or while busy, or with a
\* text that is empty after trimming, or without a player character, changes
\* nothing: transcript, phase, characters and busy flag stay and no gateway
\* call is started.
C13_RejectedSendChangesNothing ==
    [][ (/\ lastCall'.op = "send"
         /\ \/ gameState # "discussion"
            \/ isLoading
            \/ Blank(lastCall'.text)
            \/ playerCharacter = NoChar) =>
          UNCHANGED <<messages, gameState, characters, isLoading, send,
                      playerCharacter, error, used>> ]_vars

\* C13 witness: a message with text was sent while the replies to an earlier
\* one were still arriving, and was dropped.
C13_Witness ==
    /\ lastCall.op = "send" /\ ~Blank(lastCall.text)
    /\ SendRunning /\ send.k >= 1 /\ isLoading
    /\ Len(messages) = Len(send.before) + 1 + send.k

\* C14: handlePlayerVote called outside voting, or while busy, or without a
\* player character, changes nothing; a vote that is taken up is taken up in
\* voting and moves the phase to reveal, so a voting phase gives at most one
\* player ballot and one tally.
C14_RejectedVoteChangesNothing ==
    [][ /\ (/\ lastCall'.op = "vote"
            /\ \/ gameState # "voting"
               \/ isLoading
               \/ playerCharacter = NoChar) =>
              UNCHANGED <<messages, gameState, characters, isLoading, vote,
                          playerCharacter, error, used>>
        /\ used.rounds' # used.rounds =>
              (gameState = "voting" /\ gameState' = "reveal")
        /\ gameState = "reveal" => used.rounds' = used.rounds ]_vars

\* C14 witness: a second vote was cast while the ballots of the first were
\* being revealed, and was dropped.
C14_Witness ==
    /\ lastCall.op = "vote" /\ gameState = "reveal"
    /\ vote.pc = "reveal" /\ vote.k >= 1 /\ isLoading

\* Position of the player's message of the running or last send.
SentAt == Len(send.before) + 1

\* Roster position of the sender of the i-th reply of that send.
ReplierIdx(i) == FindIdx(characters, messages[SentAt + i].sender)

\* C15: an accepted send appends the player's message first and then one
\* reply per active non-player character in roster order, whatever order the
\* requests settle in; the player and voted_out characters get no reply.
C15_RepliesInRosterOrder ==
    send.pc # "idle" =>
        /\ SubSeq(messages, 1, Len(send.before)) = send.before
        /\ messages[SentAt].sender = playerCharacter.name
        /\ messages[SentAt].kind = "chat"
        /\ Len(messages) = SentAt + send.k + (IF send.pc = "failed" THEN 1 ELSE 0)
        /\ \A i \in 1..send.k :
              /\ ReplierIdx(i) # 0
              /\ characters[ReplierIdx(i)].status = "active"
              /\ ~characters[ReplierIdx(i)].isPlayer
              /\ \A j \in 1..send.k : i < j => ReplierIdx(i) < ReplierIdx(j)
        /\ send.pc = "done" =>
              \A c \in 1..Len(characters) :
                 (characters[c].status = "active" /\ ~characters[c].isPlayer) =>
                    \E i \in 1..send.k : ReplierIdx(i) = c

\* C15 witness: with a voted_out colleague in the roster, the third request
\* settled before the second, and only the first reply is in the transcript.
C15_Witness ==
    /\ send.pc = "stream" /\ send.k = 1 /\ Len(send.names) = 3
    /\ send.reply[2] = "pending" /\ send.reply[3] # "pending"
    /\ \E c \in 1..Len(characters) : characters[c].status = "voted_out"

C17_FailureIsolated ==
    /\ \A i \in 1..send.k :
          /\ messages[SentAt + i].sender = send.names[i]
          /\ messages[SentAt + i].kind =
                IF send.reply[i] = "error" THEN "placeholder" ELSE "reply"
    /\ send.pc = "failed" => send.reply[send.k + 1] = "pending"
    /\ send.pc = "done" =>
          /\ send.k = Len(send.names)
          /\ Len(messages) = SentAt + Len(send.names)

\* C17 witness: the stream ended with the second of three requests failed and
\* the other two answered.
C17_Witness ==
    /\ send.pc = "done" /\ Len(send.names) = 3
    /\ send.reply = <<"ok", "error", "ok">>
    /\ messages[SentAt + 2].kind = "placeholder"

\* The phase changes the statechart allows.
PhaseEdges ==
    { <<"welcome", "setting_up">>,
      <<"setting_up", "briefing">>, <<"setting_up", "discussion">>,
      <<"setting_up", "welcome">>,
      <<"briefing", "discussion">>,
      <<"discussion", "voting">>,
      <<"voting", "reveal">>,
      <<"reveal", "discussion">>, <<"reveal", "game_over_win">>,
      <<"reveal", "game_over_loss">>,
      <<"game_over_win", "welcome">>, <<"game_over_loss", "welcome">> }

\* C18: every change of the phase follows one of the edges above; voting is
\* left only to reveal, and a terminal phase only by play again.
C18_PhaseEdges ==
    [][ gameState' # gameState =>
          /\ <<gameState, gameState'>> \in PhaseEdges
          /\ gameState \in {"game_over_win", "game_over_loss"} =>
                lastCall'.op = "playAgain" ]_vars

\* C18 witness: a game was played to its end and left by play again, and the
\* next game is being set up.
C18_Witness ==
    /\ gameState = "setting_up"
    /\ used.games = 2 /\ used.rounds >= 1

\* Session data as handlePlayAgain leaves it.
NoSessionData ==
    /\ characters = <<>>
    /\ playerCharacter = NoChar
    /\ villain = NoChar
    /\ sabotage = ""
    /\ sceneImageUrl = NoImg

\* C19: after play again the phase is welcome and characters, transcript,
\* player character, villain, sabotage and scene image are empty, and when a
\* later start enters setting_up nothing of an earlier session is left.
C19_NothingLeftOver ==
    [][ /\ lastCall'.op = "playAgain" =>
              (gameState' = "welcome" /\ NoSessionData' /\ messages' = <<>>)
        /\ lastCall'.op = "start" =>
              (gameState' = "setting_up" /\ NoSessionData') ]_vars

\* The phase lies between a successful setup and play again.
InGame ==
    gameState \in {"briefing", "discussion", "voting", "reveal",
                   "game_over_win", "game_over_loss"}

PlayerIdxs(chars) == {i \in 1..Len(chars) : chars[i].isPlayer}

\* C20: from a successful setup until play again exactly one character has
\* isPlayer, it is the one recorded as the player character, and no step of
\* the game changes which character that is.
C20_OnePlayer ==
    [][ /\ InGame' =>
              /\ Cardinality(PlayerIdxs(characters')) = 1
              /\ \A i \in PlayerIdxs(characters') :
                    characters'[i].name = playerCharacter'.name
        /\ (InGame /\ InGame') =>
              /\ PlayerIdxs(characters') = PlayerIdxs(characters)
              /\ playerCharacter' = playerCharacter ]_vars

\* C20 witness: a colleague was voted out, the tally was reset, a portrait
\* was merged, and the discussion goes on.
C20_Witness ==
    /\ gameState = "discussion" /\ used.rounds = 1
    /\ \E i \in 1..Len(characters) : characters[i].status = "voted_out"
    /\ \E i \in 1..Len(characters) : characters[i].imageUrl # NoImg
    /\ \A i \in 1..Len(characters) : characters[i].votes = 0

VillainCount(chars) == Cardinality({i \in 1..Len(chars) : chars[i].isVillain})

\* C21: a setup that takes the phase from setting_up to briefing or discussion
\* has exactly one character with isVillain and 4 or 5 characters.
C21_AdmittedSetupValid ==
    [][ (gameState = "setting_up" /\ gameState' \in {"briefing", "discussion"}) =>
          /\ VillainCount(characters') = 1
          /\ Len(characters') \in MinChars..MaxChars ]_vars

\* C22: within a session a status changes only from active to voted_out: a
\* voted_out character keeps its place and name and stays voted_out through
\* every step but play again.
C22_StatusOneWay ==
    [][ lastCall'.op # "playAgain" =>
          \A i \in 1..Len(characters) :
             /\ i <= Len(characters')
             /\ characters'[i].name = characters[i].name
             /\ characters'[i].status \in {"active", "voted_out"}
             /\ characters[i].status = "voted_out" =>
                   characters'[i].status = "voted_out" ]_vars

\* C22 witness: after a colleague was voted out and the tally reset, a
\* message of the player was answered, and the colleague is still voted_out.
C22_Witness ==
    /\ gameState = "discussion" /\ used.rounds = 1
    /\ send.pc = "done" /\ send.k = Len(send.names) /\ send.k >= 1
    /\ \E i \in 1..Len(characters) : characters[i].status = "voted_out"

\* A message without its image reference.
Unillustrated(m) == [m EXCEPT !.imageUrl = NoImg]

\* C23: from the initial messages of a session until play again the transcript
\* only grows: every message keeps its place, sender and text, and only a
\* message flagged isSpecial may change its image reference.
C23_TranscriptGrows ==
    [][ (InGame /\ lastCall'.op # "playAgain") =>
          /\ Len(messages') >= Len(messages)
          /\ \A i \in 1..Len(messages) :
                /\ Unillustrated(messages'[i]) = Unillustrated(messages[i])
                /\ messages'[i].imageUrl # messages[i].imageUrl =>
                      messages[i].isSpecial ]_vars

\* C23 witness: a game that had a message answered and a vote round played is
\* over, with the scene image attached to the sabotage announcement.
C23_Witness ==
    /\ gameState \in {"game_over_win", "game_over_loss"}
    /\ used.sends = 1 /\ used.rounds >= 1
    /\ Len(messages) > 3
    /\ messages[2].imageUrl # NoImg
    /\ \E i \in 1..Len(messages) : messages[i].kind = "chat"

\* Messages flagged isSpecial: the targets of a scene-image merge.
AttachmentTargets == {i \in 1..Len(messages) : messages[i].isSpecial}

\* C24: a scene-image merge changes the image reference of the sabotage
\* announcement only; every other message, the isSpecial result messages of
\* vote rounds among them, stays as it was.
C24_OneAttachmentTarget ==
    [][ (InGame /\ sceneImageUrl' # sceneImageUrl /\ lastCall'.op # "playAgain") =>
          /\ Len(messages') = Len(messages)
          /\ \A i \in 1..Len(messages) :
                messages'[i] # messages[i] => messages[i].kind = "sabotage" ]_vars

\* Pending image promises requested by an earlier game than the current one.
StaleTasks == {t \in tasks : t.game < used.games}

\* C25: once a new game was started after play again, the result of an image
\* promise of the earlier game changes neither the characters nor the
\* transcript nor the scene image.
C25_StaleResultIgnored ==
    [][ (\E t \in StaleTasks : tasks' = tasks \ {t}) =>
          UNCHANGED <<characters, messages, sceneImageUrl>> ]_vars

\* C26: an edited scene image that arrives while the scene image already is
\* the result of a later-launched edit does not replace it. Images are
\* numbered in the order of their requests.
C26_LaterEditWins ==
    [][ \A t \in tasks :
          (t.kind = "edit" /\ tasks' = tasks \ {t} /\ sceneImageUrl > t.img) =>
             sceneImageUrl' = sceneImageUrl ]_vars

\* C27: merging a scene-image result again right after its merge leaves the
\* state as the first merge left it: the same transcript, of the same length,
\* the same scene image, and no error.
C27_MergeIdempotent ==
    [][ \A t \in tasks :
          (t.kind # "portrait" /\ tasks' = tasks \ {t} /\ sceneImageUrl' = t.img) =>
             /\ AttachImage(messages', t.img) = messages'
             /\ Len(AttachImage(messages', t.img)) = Len(messages)
             /\ error' = error ]_vars

\* C27 witness: an edited scene image was merged after a round's result
\* message, and both announcements carry it.
C27_Witness ==
    /\ sceneImageUrl > 1
    /\ Cardinality(AttachmentTargets) >= 2
    /\ \A i \in AttachmentTargets : messages[i].imageUrl = sceneImageUrl
    /\ AttachImage(messages, sceneImageUrl) = messages

\* The image is nowhere in the state.
Unused(img) ==
    /\ sceneImageUrl # img
    /\ \A i \in 1..Len(characters) : characters[i].imageUrl # img
    /\ \A i \in 1..Len(messages) : messages[i].imageUrl # img

\* C28: an image promise that settles without an image changes nothing: no
\* message is appended and transcript, characters, phase, busy flag, error and
\* scene image stay; and neither a pending nor a failed image disables the
\* continue button, the vote button or a vote.
C28_ImageFailureHarmless ==
    /\ [][ \A t \in tasks :
             (tasks' = tasks \ {t} /\ Unused(t.img)') =>
                UNCHANGED <<messages, characters, gameState, isLoading, error,
                            sceneImageUrl, playerCharacter, villain>> ]_vars
    /\ [](/\ (gameState = "briefing" /\ startGame = "idle" /\ timers = 0) =>
                ENABLED HandleContinue
          /\ (gameState = "discussion" /\ ~isLoading) => ENABLED HandleStartVoting
          /\ (gameState = "voting" /\ ~isLoading) => ENABLED HandlePlayerVote("c2"))

\* C28 witness: the scene image and a portrait failed, another portrait is
\* still pending, and the game was played to its end.
C28_Witness ==
    /\ gameState \in {"game_over_win", "game_over_loss"}
    /\ sceneImageUrl = NoImg
    /\ \A t \in tasks : t.kind = "portrait"
    /\ Cardinality(tasks) = 1
    /\ \A i \in 1..Len(characters) : characters[i].imageUrl = NoImg
    /\ \A i \in 1..Len(messages) : messages[i].kind # "error"

\* A character without its portrait.
Unportrayed(c) == [c EXCEPT !.imageUrl = NoImg]

\* The portrait requested for the character at a roster position: the image
\* of the pending or settled promise of lines 141-143 for that position.
PortraitFor(i) == i + 1

\* C29: within one game a portrait result changes only the portrait of the
\* character it was requested for: that character's status, votes and flags
\* and every other character stay, during and after vote rounds too; a
\* portrait once merged stays through every later step, so each character
\* ends with its own portrait or none, whatever the arrival order.
C29_PortraitMerge ==
    /\ [][ /\ \A t \in tasks :
                (t.kind = "portrait" /\ tasks' = tasks \ {t}) =>
                   /\ Len(characters') = Len(characters)
                   /\ \A j \in 1..Len(characters) :
                         /\ Unportrayed(characters'[j]) = Unportrayed(characters[j])
                         /\ j # t.idx => characters'[j] = characters[j]
                   /\ characters'[t.idx].imageUrl \in {t.img, NoImg}
                   /\ UNCHANGED <<messages, sceneImageUrl, gameState>>
           /\ \A i \in 1..Len(characters) :
                 characters[i].imageUrl # NoImg =>
                    characters'[i].imageUrl = characters[i].imageUrl ]_vars
    /\ [](\A i \in 1..Len(characters) :
             characters[i].imageUrl \in
                IF i \in ImageSetup.portraits THEN {NoImg, PortraitFor(i)} ELSE {NoImg})

\* C29 witness: both portraits are merged while the ballots of a round are
\* being shown and the third character has a vote.
C29_Witness ==
    /\ vote.pc = "reveal" /\ vote.k >= 1
    /\ characters[3].votes > 0
    /\ characters[3].imageUrl = PortraitFor(3)
    /\ characters[4].imageUrl = PortraitFor(4)
    /\ lastCall = NoCall
    /\ \A t \in tasks : t.kind # "portrait"

\* C30: generateCharacterPortraits returns a list as long as its prompts and
\* in their order, in which the element of a prompt is its image when its
\* generation succeeded and null only when that generation failed.
C30_PortraitsFailIndependently ==
    portraitCall.pc = "returned" =>
        /\ Len(portraitCall.result) = Len(portraitCall.outcomes)
        /\ \A i \in 1..Len(portraitCall.outcomes) :
              portraitCall.result[i] =
                 IF portraitCall.outcomes[i] = "ok" THEN i ELSE NoImg

\* C34: the briefing phase begins with the revealed count at 0; in briefing
\* the count only rises, one at a time, and never beyond the number of
\* characters; and the continue button acts only after the count was zeroed
\* in this briefing and every timer of it has fired.
C34_BriefingCount ==
    [][ /\ (gameState # "briefing" /\ gameState' = "briefing") =>
              revealedCharactersCount' = 0
        /\ (gameState = "briefing" /\ gameState' = "briefing") =>
              /\ revealedCharactersCount' \in
                    {revealedCharactersCount, revealedCharactersCount + 1, 0}
              /\ revealedCharactersCount' <= Len(characters')
        /\ lastCall'.op = "continue" =>
              /\ startGame = "idle" /\ timers = 0
              /\ revealedCharactersCount = Len(characters) ]_vars

\* C31: a vote submitted when no character is flagged as villain is aborted
\* like a gateway failure: the step that answers it appends a system error
\* message, returns to discussion and clears the busy flag; no ballot is
\* revealed and no status changes.
C31_NoVillainAborts ==
    [][ (vote.pc = "await_votes" /\ VillainCount(vote.chars) = 0) =>
          /\ messages' = Append(messages, SysMsg("error", "", ""))
          /\ gameState' = "discussion"
          /\ ~isLoading'
          /\ characters' = characters
          /\ vote'.pc = "done" /\ vote'.allVotes = <<>> ]_vars

\* C31 witness: a game without a villain had a vote submitted, and the round
\* is over with the error message last in the transcript.
C31_Witness ==
    /\ vote.pc = "done" /\ vote.chars # <<>>
    /\ VillainCount(vote.chars) = 0
    /\ gameState = "discussion" /\ ~isLoading
    /\ messages[Len(messages)].kind = "error"
    /\ messages[Len(messages) - 1].kind = "tallying"

\* The step on which a pending setup call ends in the welcome phase.
SetupFails == startGame = "await" /\ gameState' = "welcome"

\* C32 (as the code has it): a failed setup call is recorded in the error
\* field, which the welcome page displays; the transcript gets no message and
\* keeps only the "receiving" line. Control returns to welcome with the busy
\* flag cleared and characters, player, villain and sabotage untouched and
\* unset.
C32_SetupFailureToErrorField ==
    [][ SetupFails =>
          /\ error' = "error"
          /\ ~isLoading'
          /\ messages' = messages
          /\ messages' = << SysMsg("receiving", "", "") >>
          /\ <<characters', playerCharacter', villain', sabotage'>> =
                <<characters, playerCharacter, villain, sabotage>>
          /\ characters' = <<>> /\ playerCharacter' = NoChar
          /\ villain' = NoChar /\ sabotage' = "" ]_vars

\* C32 witness: the welcome page after a failed setup call.
C32_Witness ==
    /\ gameState = "welcome" /\ startGame = "idle" /\ ~isLoading
    /\ error = "error"
    /\ messages = << SysMsg("receiving", "", "") >>
    /\ characters = <<>>

\* C32 (as the specification states it): the failure is surfaced to the
\* transcript as a system message.
C32_SetupFailureToTranscript ==
    [][ SetupFails =>
          /\ messages'[Len(messages')].kind = "error"
          /\ ~isLoading'
          /\ characters' = <<>> /\ playerCharacter' = NoChar
          /\ villain' = NoChar /\ sabotage' = "" ]_vars

RECURSIVE IsSubSeq(_, _)
\* s can be obtained from t by leaving entries out, the order being kept.
IsSubSeq(s, t) ==
    IF s = <<>> THEN TRUE
    ELSE IF t = <<>> THEN FALSE
    ELSE IF Head(s) = Head(t) THEN IsSubSeq(Tail(s), Tail(t))
    ELSE IsSubSeq(s, Tail(t))

\* The number of ballots for name among the first k of votes.
BallotsFor(name, votes, k) ==
    Cardinality({j \in 1..k : votes[j].votedFor = name})

\* C33: while the ballots of a round are revealed, the transcript ends with
\* the tallying message followed by one ballot message for each of the first
\* k ballots, in order; the first ballot is the player's, the others are AI
\* ballots in the order the gateway listed them; and each character's votes
\* counter is its number of ballots among the first k.
C33_RevealInOrder ==
    vote.pc = "reveal" =>
        LET k == vote.k
            n == Len(messages)
        IN  /\ k <= Len(vote.allVotes) /\ k < n
            /\ messages[n - k].kind = "tallying"
            /\ \A j \in 1..k :
                  messages[n - k + j] =
                     SysMsg("ballot", vote.allVotes[j].voter, vote.allVotes[j].votedFor)
            /\ vote.allVotes[1] = [voter |-> vote.player.name,
                                   votedFor |-> vote.votedName]
            /\ k = 0 => IsSubSeq(Tail(vote.allVotes), vote.aiVotes)
            /\ \A i \in 1..Len(characters) :
                  characters[i].votes =
                     BallotsFor(characters[i].name, vote.allVotes, k)

\* C33 witness: all of three ballots or more are revealed, the player's and
\* an AI ballot naming the same character.
C33_Witness ==
    /\ vote.pc = "reveal"
    /\ vote.k = Len(vote.allVotes) /\ vote.k >= 3
    /\ \E i \in 1..Len(characters) : characters[i].votes = 2
    /\ messages[Len(messages) - vote.k + 1].a = vote.player.name

\* The villain of the roster has been voted out.
VillainEliminated ==
    \E i \in 1..Len(characters) :
        characters[i].isVillain /\ characters[i].status = "voted_out"

\* C35: a vote round that has ended in a terminal phase has ended in
\* game_over_win exactly when "the player is the villain" and "the villain
\* was eliminated in this round" differ, and in game_over_loss exactly when
\* they agree.
C35_WinIffDiffer ==
    (vote.pc = "done" /\ gameState \notin {"discussion", "voting", "reveal"}) =>
        /\ gameState \in {"game_over_win", "game_over_loss"}
        /\ (gameState = "game_over_win") <=>
              (playerCharacter.isVillain # VillainEliminated)
        /\ (gameState = "game_over_loss") <=>
              (playerCharacter.isVillain = VillainEliminated)

\* C35 witness: the player is the villain and has been voted out.
C35_Witness ==
    /\ vote.pc = "done"
    /\ gameState = "game_over_loss"
    /\ playerCharacter.isVillain /\ VillainEliminated

\* The step that opens the single-candidate branch of a round.
Eliminates == vote.pc = "reveal" /\ vote'.pc = "single_wait"

\* C37: the character eliminated in a vote round was active when the round
\* began.
C37_EliminatedWasActive ==
    [][ Eliminates =>
          \E i \in ActiveIdx(vote.chars) :
              vote.chars[i].name = vote'.votedOutName ]_vars

\* The step that ends a round in discussion with the "game continues"
\* message, that is, without a failure.
RoundContinues ==
    /\ vote.pc = "single_wait" /\ vote'.pc = "done"
    /\ gameState' = "discussion"
    /\ messages'[Len(messages')].kind = "continue"

\* C36: every vote round that returns to discussion without a failure leaves
\* one active character fewer than the round began with.
C36_ContinuingRoundShrinks ==
    [][ RoundContinues =>
          ActiveCount(characters') = ActiveCount(vote.chars) - 1 ]_vars

\* C38: whenever the phase is discussion or voting, every character's votes
\* counter is 0.
C38_CountersZeroBetweenRounds ==
    gameState \in {"discussion", "voting"} =>
        \A i \in 1..Len(characters) : characters[i].votes = 0

\* C39: whenever the phase is discussion or voting, the player character and
\* the villain are active and at least three characters are active (the
\* setups being of 4 or 5 characters with one villain).
C39_EnoughActive ==
    gameState \in {"discussion", "voting"} =>
        /\ \A i \in 1..Len(characters) :
              (characters[i].isPlayer \/ characters[i].isVillain) =>
                  characters[i].status = "active"
        /\ \E i \in 1..Len(characters) : characters[i].isPlayer
        /\ \E i \in 1..Len(characters) : characters[i].isVillain
        /\ ActiveCount(characters) >= 3

\* C39 witness: discussion after a round that has voted an innocent out of
\* four, three being left.
C39_Witness ==
    /\ gameState = "discussion" /\ vote.pc = "done"
    /\ Len(characters) = MinChars
    /\ ActiveCount(characters) = 3
    /\ messages[Len(messages)].kind = "continue"

\* C40: every accepted vote leads out of the reveal phase, to discussion or
\* to one of the two game-over phases, the gateway call returning or failing;
\* and the phase is reveal only while the vote handler is running with the
\* busy flag set, so the handler never finishes with the phase still reveal.
C40_VoteLeavesReveal ==
    /\ [](gameState = "reveal" => isLoading /\ VoteRunning)
    /\ (gameState = "reveal") ~>
          (gameState \in {"discussion", "game_over_win", "game_over_loss"})

\* C40 witness: a vote was accepted, the gateway answered, three ballots were
\* revealed, and the handler has finished in another phase than reveal.
C40_Witness ==
    /\ vote.pc = "done" /\ Len(vote.allVotes) = 3
    /\ gameState \in {"discussion", "game_over_win", "game_over_loss"}
    /\ ~isLoading

====
